---- MODULE Spec2Model ----
(***************************************************************************)
(* The css selector builder of src/src/05-objects-tasks.js: class Selector *)
(* (the accumulator) and the facade object cssSelectorBuilder.             *)
(*                                                                         *)
(* A JavaScript string is a sequence of one-character strings, so that     *)
(* template literals and Array.join are sequence concatenations. Selector  *)
(* objects live on a heap: object n is the n-th Selector constructed.      *)
(***************************************************************************)
EXTENDS Integers, Sequences, FiniteSets, TLC

(* Bound: the fragments held by all Selector objects together.             *)
MaxFrags == 3

(* The raw values the callers pass, and the combinator tokens they pass to *)
(* combine.                                                                *)
Values == {<<"a">>}
Combinators == {<<" ">>, <<"+">>}

VARIABLES
    selectors,  \* heap: object id -> this.selectors, a sequence of {type, selector}
    calls,      \* history: object id -> the (type, raw value) of each fragment pushed
    raised,     \* history: object id -> the errors thrown by the calls made on it
    last        \* the last call made: what was called, on which object(s), with
                \* what, and how it ended (the error thrown, or the object or
                \* string returned)

vars == <<selectors, calls, raised, last>>

----------------------------------------------------------------------------
(* Selector.constructor: the constants every instance carries.             *)

selectorsOrder == <<"element", "id", "class", "attr", "pseudoClass", "pseudoElement">>
selectorsError == "selectorsError"
selectorsOrderError == "selectorsOrderError"

(* The array literal of addSelector's first test.                          *)
Singletons == {"element", "id", "pseudoElement"}

Range(s) == {s[i] : i \in DOMAIN s}

(* new Selector(key, value): this.selectors = [{type: key, selector: value}] *)
Selector(key, value) == <<[type |-> key, selector |-> value]>>

(* Array.prototype.join(''): the strings of a sequence, concatenated.      *)
RECURSIVE Join(_)
Join(ss) == IF ss = <<>> THEN <<>> ELSE Head(ss) \o Join(Tail(ss))

(* Selector.stringify: this.selectors.map((el) => el.selector).join('')    *)
stringify(sel) == Join([i \in DOMAIN sel |-> sel[i].selector])

(* hasSelectorType, were it to look only at the fragments chained after    *)
(* the constructor's seed (slice(1) before the filter).                    *)
hasSelectorTypeSkipSeed(sel, type) ==
    Len(SelectSeq(Tail(sel), LAMBDA el : el.type = type))

(* Selector.hasSelectorType: the number of fragments of the type (a number *)
(* used as a truth value by addSelector).                                  *)
hasSelectorType(sel, type) == Len(SelectSeq(sel, LAMBDA el : el.type = type))

(* checkSelectorsOrder, were its last line to test membership             *)
(* (selectorsTypes.includes(type)) instead of the position.                *)
checkSelectorsOrderIncludes(sel) ==
    LET types == [i \in DOMAIN sel |-> sel[i].type]
        selectorsTypes == SelectSeq(types, LAMBDA t : t \in Range(selectorsOrder))
        order == SelectSeq(selectorsOrder, LAMBDA t : t \in Range(selectorsTypes))
    IN  \A i \in DOMAIN order : order[i] \in Range(selectorsTypes)

(* checkSelectorsOrder, were it to compare only the new fragment with the  *)
(* one before it (their places in selectorsOrder).                         *)
checkSelectorsOrderLastTwo(sel) ==
    LET types == [i \in DOMAIN sel |-> sel[i].type]
        selectorsTypes == SelectSeq(types, LAMBDA t : t \in Range(selectorsOrder))
        indexOf(t) == CHOOSE i \in DOMAIN selectorsOrder : selectorsOrder[i] = t
        n == Len(selectorsTypes)
    IN  n < 2 \/ indexOf(selectorsTypes[n - 1]) <= indexOf(selectorsTypes[n])

(* Selector.checkSelectorsOrder                                            *)
checkSelectorsOrder(sel) ==
    LET types == [i \in DOMAIN sel |-> sel[i].type]
        selectorsTypes == SelectSeq(types, LAMBDA t : t \in Range(selectorsOrder))
        order == SelectSeq(selectorsOrder, LAMBDA t : t \in Range(selectorsTypes))
    IN  \A i \in DOMAIN order : i \in DOMAIN selectorsTypes /\ order[i] = selectorsTypes[i]

(* SelectorText, were attr to forget the closing bracket.                  *)
SelectorTextOpenBracket(type, value) ==
    CASE type = "element"       -> value
      [] type = "id"            -> <<"#">> \o value
      [] type = "class"         -> <<".">> \o value
      [] type = "attr"          -> <<"[">> \o value
      [] type = "pseudoClass"   -> <<":">> \o value
      [] type = "pseudoElement" -> <<":", ":">> \o value

(* The text the six methods of Selector hand to addSelector.               *)
SelectorText(type, value) ==
    CASE type = "element"       -> value
      [] type = "id"            -> <<"#">> \o value
      [] type = "class"         -> <<".">> \o value
      [] type = "attr"          -> <<"[">> \o value \o <<"]">>
      [] type = "pseudoClass"   -> <<":">> \o value
      [] type = "pseudoElement" -> <<":", ":">> \o value

(* The text the six methods of cssSelectorBuilder hand to the constructor. *)
BuilderText(type, value) ==
    CASE type = "element"       -> value
      [] type = "id"            -> <<"#">> \o value
      [] type = "class"         -> <<".">> \o value
      [] type = "attr"          -> <<"[">> \o value \o <<"]">>
      [] type = "pseudoClass"   -> <<":">> \o value
      [] type = "pseudoElement" -> <<":", ":">> \o value

(* CombinedText, were a blank combinator not padded with spaces.           *)
CombinedTextCollapsed(s1, combinator, s2) ==
    IF combinator = <<" ">>
    THEN stringify(s1) \o <<" ">> \o stringify(s2)
    ELSE stringify(s1) \o <<" ">> \o combinator \o <<" ">> \o stringify(s2)

(* cssSelectorBuilder.combine: the template literal.                       *)
CombinedText(s1, combinator, s2) ==
    stringify(s1) \o <<" ">> \o combinator \o <<" ">> \o stringify(s2)

(* ThrowsSelectorsError, were 'pseudoElement' missing from its list.       *)
ThrowsSelectorsErrorTwoTypes(sel, sType) ==
    sType \in {"element", "id"} /\ hasSelectorType(sel, sType) # 0

(* addSelector's first statement: does it throw this.selectorsError?       *)
ThrowsSelectorsError(sel, sType) ==
    sType \in Singletons /\ hasSelectorType(sel, sType) # 0

(* Pushed, were the fragment put in front (unshift for push).              *)
Unshifted(sel, sType, sValue) == <<[type |-> sType, selector |-> sValue]>> \o sel

(* addSelector's push.                                                     *)
Pushed(sel, sType, sValue) == Append(sel, [type |-> sType, selector |-> sValue])

----------------------------------------------------------------------------
Objects == DOMAIN selectors

TotalFrags ==
    LET RECURSIVE Sum(_)
        Sum(n) == IF n = 0 THEN 0 ELSE Len(selectors[n]) + Sum(n - 1)
    IN  Sum(Len(selectors))

NoCall == [op |-> "none", self |-> 0, other |-> 0, type |-> "", value |-> <<>>,
           outcome |-> "", ret |-> 0, out |-> <<>>]

Init ==
    /\ selectors = <<>>
    /\ calls = <<>>
    /\ raised = <<>>
    /\ last = NoCall

(* cssSelectorBuilder.element / id / class / attr / pseudoClass /          *)
(* pseudoElement: return new Selector(type, text).                         *)
Builder(type, value) ==
    /\ TotalFrags < MaxFrags
    /\ selectors' = Append(selectors, Selector(type, BuilderText(type, value)))
    /\ calls' = Append(calls, <<[type |-> type, value |-> value]>>)
    /\ raised' = Append(raised, {})
    /\ last' = [NoCall EXCEPT !.op = "builder", !.type = type, !.value = value,
                              !.outcome = "ok", !.ret = Len(selectors) + 1]

(* combine, were it to reuse selector1 for the result (overwrite its       *)
(* selectors and return it) instead of constructing a Selector.            *)
combineInPlace(s1, combinator, s2) ==
    /\ TotalFrags < MaxFrags
    /\ LET combined == CombinedText(selectors[s1], combinator, selectors[s2])
       IN  /\ selectors' = [selectors EXCEPT ![s1] = Selector("combined", combined)]
           /\ calls' = [calls EXCEPT ![s1] = <<[type |-> "combined", value |-> combined]>>]
    /\ UNCHANGED raised
    /\ last' = [NoCall EXCEPT !.op = "combine", !.self = s1, !.other = s2,
                              !.type = "combined", !.value = combinator,
                              !.outcome = "ok", !.ret = s1]

(* cssSelectorBuilder.combine(selector1, combinator, selector2)            *)
combine(s1, combinator, s2) ==
    /\ TotalFrags < MaxFrags
    /\ LET combined == CombinedText(selectors[s1], combinator, selectors[s2])
       IN  /\ selectors' = Append(selectors, Selector("combined", combined))
           /\ calls' = Append(calls, <<[type |-> "combined", value |-> combined]>>)
    /\ raised' = Append(raised, {})
    /\ last' = [NoCall EXCEPT !.op = "combine", !.self = s1, !.other = s2,
                              !.type = "combined", !.value = combinator,
                              !.outcome = "ok", !.ret = Len(selectors) + 1]

(* addSelector, were it to pop the fragment before throwing                *)
(* selectorsOrderError.                                                    *)
addSelectorRollback(self, sType, value) ==
    LET sValue == SelectorText(sType, value)
        call == [NoCall EXCEPT !.op = "chain", !.self = self, !.type = sType,
                               !.value = value, !.outcome = "ok"]
    IN  IF ThrowsSelectorsError(selectors[self], sType)
        THEN /\ raised' = [raised EXCEPT ![self] = @ \cup {selectorsError}]
             /\ last' = [call EXCEPT !.outcome = selectorsError]
             /\ UNCHANGED <<selectors, calls>>
        ELSE /\ TotalFrags < MaxFrags
             /\ IF ~checkSelectorsOrder(Pushed(selectors[self], sType, sValue))
                THEN /\ raised' = [raised EXCEPT ![self] = @ \cup {selectorsOrderError}]
                     /\ last' = [call EXCEPT !.outcome = selectorsOrderError]
                     /\ UNCHANGED <<selectors, calls>>
                ELSE /\ selectors' = [selectors EXCEPT ![self] = Pushed(@, sType, sValue)]
                     /\ calls' = [calls EXCEPT ![self] =
                                      Append(@, [type |-> sType, value |-> value])]
                     /\ UNCHANGED raised
                     /\ last' = [call EXCEPT !.ret = self]

(* Selector.addSelector(sType, sValue), called on object self by the       *)
(* method of that type with the raw value.                                 *)
addSelector(self, sType, value) ==
    LET sValue == SelectorText(sType, value)
        call == [NoCall EXCEPT !.op = "chain", !.self = self, !.type = sType,
                               !.value = value, !.outcome = "ok"]
    IN  IF ThrowsSelectorsError(selectors[self], sType)
        THEN /\ raised' = [raised EXCEPT ![self] = @ \cup {selectorsError}]
             /\ last' = [call EXCEPT !.outcome = selectorsError]
             /\ UNCHANGED <<selectors, calls>>
        ELSE /\ TotalFrags < MaxFrags
             /\ selectors' = [selectors EXCEPT ![self] = Pushed(@, sType, sValue)]
             /\ calls' = [calls EXCEPT ![self] = Append(@, [type |-> sType, value |-> value])]
             /\ IF ~checkSelectorsOrder(selectors'[self])
                THEN /\ raised' = [raised EXCEPT ![self] = @ \cup {selectorsOrderError}]
                     /\ last' = [call EXCEPT !.outcome = selectorsOrderError]
                ELSE /\ UNCHANGED raised
                     /\ last' = [call EXCEPT !.ret = self]

(* Stringify, were it to consume the fragments it renders (shift() in a    *)
(* loop instead of map).                                                   *)
StringifyDraining(self) ==
    /\ last' = [NoCall EXCEPT !.op = "stringify", !.self = self, !.outcome = "ok",
                              !.out = stringify(selectors[self])]
    /\ selectors' = [selectors EXCEPT ![self] = <<>>]
    /\ UNCHANGED <<calls, raised>>

(* Selector.stringify() called on object self.                             *)
Stringify(self) ==
    /\ last' = [NoCall EXCEPT !.op = "stringify", !.self = self, !.outcome = "ok",
                              !.out = stringify(selectors[self])]
    /\ UNCHANGED <<selectors, calls, raised>>

Next ==
    \/ \E type \in Range(selectorsOrder), value \in Values : Builder(type, value)
    \/ \E s1 \in Objects, s2 \in Objects, c \in Combinators : combine(s1, c, s2)
    \/ \E self \in Objects, type \in Range(selectorsOrder), value \in Values :
          addSelector(self, type, value)
    \/ \E self \in Objects : Stringify(self)

Spec == Init /\ [][Next]_vars

----------------------------------------------------------------------------
(* What the properties below speak of.                                     *)

(* The canonical order of the six kinds, and a kind's position in it.      *)
CanonicalOrder == <<"element", "id", "class", "attr", "pseudoClass", "pseudoElement">>
Kinds == Range(CanonicalOrder)
Pos(kind) == CHOOSE i \in DOMAIN CanonicalOrder : CanonicalOrder[i] = kind

(* The kinds that may occur once only.                                     *)
SingletonKinds == {"element", "id", "pseudoElement"}

(* The decoration table; a combined fragment's text is the text combine    *)
(* computed.                                                               *)
Decorated(kind, value) ==
    CASE kind = "element"       -> value
      [] kind = "id"            -> <<"#">> \o value
      [] kind = "class"         -> <<".">> \o value
      [] kind = "attr"          -> <<"[">> \o value \o <<"]">>
      [] kind = "pseudoClass"   -> <<":">> \o value
      [] kind = "pseudoElement" -> <<":", ":">> \o value
      [] kind = "combined"      -> value

RECURSIVE Concat(_)
Concat(ss) == IF Len(ss) = 0 THEN <<>> ELSE Concat(SubSeq(ss, 1, Len(ss) - 1)) \o ss[Len(ss)]

KindsOf(sel) == [i \in DOMAIN sel |-> sel[i].type]
Count(sel, kind) == Cardinality({i \in DOMAIN sel : sel[i].type = kind})
ErrorFree(o) == raised[o] = {}

(* The step is a chaining call (one of the six methods of a Selector).     *)
ChainingCall == last'.op = "chain" /\ last'.self \in Objects
Raises(error) == last'.outcome = error
TheFragment == [type |-> last'.type, selector |-> Decorated(last'.type, last'.value)]

(* C1: on every object no chaining call on which has thrown, stringify()   *)
(* is the concatenation, without separator, of the decorated texts of the  *)
(* fragments in the order they were appended, whether the facade or a      *)
(* chaining call appended them; and that is the string a stringify() call  *)
(* returns.                                                                *)
Thm_C1 ==
    /\ \A o \in Objects :
          ErrorFree(o) =>
             stringify(selectors[o]) =
                Concat([i \in DOMAIN calls[o] |-> Decorated(calls[o][i].type, calls[o][i].value)])
    /\ (last.op = "stringify" /\ ErrorFree(last.self)) =>
          last.out =
             Concat([i \in DOMAIN calls[last.self] |->
                        Decorated(calls[last.self][i].type, calls[last.self][i].value)])

Witness_C1 ==
    /\ last.op = "stringify"
    /\ ErrorFree(last.self)
    /\ KindsOf(selectors[last.self]) = <<"element", "attr", "pseudoElement">>
    /\ last.out = <<"a", "[", "a", "]", ":", ":", "a">>

(* C2: in every state of an object, element(), id() or pseudoElement()     *)
(* called when a fragment of that kind is present (the seed included)      *)
(* throws the duplicate-singleton error, not the out-of-order error.       *)
Thm_C2 ==
    [][(/\ ChainingCall
        /\ last'.type \in SingletonKinds
        /\ Count(selectors[last'.self], last'.type) > 0)
       => Raises(selectorsError)]_vars

(* element() on an object seeded with an element and holding a later kind: *)
(* the append would break the order too.                                   *)
Witness_C2 ==
    /\ last.op = "chain"
    /\ last.type = "element"
    /\ last.outcome = selectorsError
    /\ selectors[last.self][1].type = "element"
    /\ \E i \in DOMAIN selectors[last.self] : selectors[last.self][i].type = "class"

(* C3: on an error-free object, a chaining call of a kind not yet present  *)
(* that comes, in the canonical order, before some kind already present    *)
(* throws the out-of-order error.                                          *)
Thm_C3 ==
    [][(/\ ChainingCall
        /\ ErrorFree(last'.self)
        /\ Count(selectors[last'.self], last'.type) = 0
        /\ \E i \in DOMAIN selectors[last'.self] :
              /\ selectors[last'.self][i].type \in Kinds
              /\ Pos(last'.type) < Pos(selectors[last'.self][i].type))
       => Raises(selectorsOrderError)]_vars

Witness_C3 ==
    /\ last.op = "chain"
    /\ last.type = "id"
    /\ last.outcome = selectorsOrderError
    /\ KindsOf(selectors[last.self]) = <<"class", "id">>

(* C4: on an error-free object, a chaining call of a kind not yet present  *)
(* and later in the canonical order than every kind present throws         *)
(* nothing, also when a class, attr or pseudoClass kind is held twice.     *)
Orig_C4 ==
    [][(/\ ChainingCall
        /\ ErrorFree(last'.self)
        /\ Count(selectors[last'.self], last'.type) = 0
        /\ \A i \in DOMAIN selectors[last'.self] :
              selectors[last'.self][i].type \in Kinds
                 => Pos(selectors[last'.self][i].type) < Pos(last'.type))
       => Raises("ok")]_vars

(* C5: the fragments of an error-free object are in the canonical order:   *)
(* no fragment is followed by one of an earlier kind.                      *)
Orig_C5 ==
    \A o \in Objects :
       ErrorFree(o) =>
          \A i, j \in DOMAIN selectors[o] :
             (i < j /\ selectors[o][i].type \in Kinds /\ selectors[o][j].type \in Kinds)
                => Pos(selectors[o][i].type) <= Pos(selectors[o][j].type)

(* C6: every object, whatever was called on it and whatever was thrown,    *)
(* holds at most one element, one id and one pseudoElement fragment.       *)
Thm_C6 ==
    \A o \in Objects : \A kind \in SingletonKinds : Count(selectors[o], kind) <= 1

(* A second pseudoElement was refused, on an object whose order is broken. *)
Witness_C6 ==
    /\ last.op = "chain"
    /\ last.type = "pseudoElement"
    /\ last.outcome = selectorsError
    /\ selectorsOrderError \in raised[last.self]
    /\ Count(selectors[last.self], "pseudoElement") = 1

(* C7: combine(left, combinator, right) returns a new object holding the   *)
(* single fragment of kind 'combined' whose text is stringify(left), a     *)
(* space, the combinator, a space, stringify(right); with the combinator   *)
(* ' ' three spaces separate the two parts. Inputs that combine built are  *)
(* treated alike.                                                          *)
Thm_C7 ==
    [][last'.op = "combine" =>
         LET left == stringify(selectors[last'.self])
             right == stringify(selectors[last'.other])
             text == selectors'[last'.ret][1].selector
         IN  /\ last'.ret = Len(selectors) + 1
             /\ DOMAIN selectors' = 1..last'.ret
             /\ Len(selectors'[last'.ret]) = 1
             /\ selectors'[last'.ret][1].type = "combined"
             /\ text = left \o <<" ">> \o last'.value \o <<" ">> \o right
             /\ last'.value = <<" ">> =>
                   /\ Len(text) = Len(left) + 3 + Len(right)
                   /\ SubSeq(text, Len(left) + 1, Len(left) + 3) = <<" ", " ", " ">>]_vars

(* A nested combine with the blank combinator: 'a + a   a'.                *)
Witness_C7 ==
    /\ last.op = "combine"
    /\ last.value = <<" ">>
    /\ selectors[last.self][1].type = "combined"
    /\ selectors[last.ret] =
          <<[type |-> "combined",
             selector |-> <<"a", " ", "+", " ", "a", " ", " ", " ", "a">>]>>

(* C8: a chaining call that throws nothing returns the object it was       *)
(* called on, whose fragments are then the ones it had, in their order,    *)
(* followed by the one new fragment.                                       *)
Thm_C8 ==
    [][(ChainingCall /\ Raises("ok")) =>
         /\ last'.ret = last'.self
         /\ Len(selectors'[last'.self]) = Len(selectors[last'.self]) + 1
         /\ SubSeq(selectors'[last'.self], 1, Len(selectors[last'.self]))
               = selectors[last'.self]
         /\ selectors'[last'.self][Len(selectors[last'.self]) + 1] = TheFragment]_vars

Witness_C8 ==
    /\ last.op = "chain"
    /\ last.outcome = "ok"
    /\ last.ret = last.self
    /\ KindsOf(selectors[last.self]) = <<"id", "class", "class">>

(* C9: stringify() changes the fragments of no object, in every state      *)
(* (also after a chaining call threw), and a second call right after       *)
(* returns the same string.                                                *)
Thm_C9 ==
    [][last'.op = "stringify" =>
         /\ selectors' = selectors
         /\ (last.op = "stringify" /\ last.self = last'.self) => last'.out = last.out]_vars

Witness_C9 ==
    /\ last.op = "stringify"
    /\ selectorsOrderError \in raised[last.self]
    /\ Len(last.out) > 0

(* C10 as stated: a chaining call that throws either error leaves the      *)
(* object with the offending fragment appended.                            *)
Orig_C10 ==
    [][(ChainingCall /\ (Raises(selectorsError) \/ Raises(selectorsOrderError))) =>
         selectors'[last'.self] = Append(selectors[last'.self], TheFragment)]_vars

(* C10 as amended: a chaining call that throws the out-of-order error      *)
(* leaves the object with the offending fragment appended (stringify()     *)
(* then ends with its text); one that throws the duplicate-singleton       *)
(* error leaves the object as it was.                                      *)
Thm_C10 ==
    [][ChainingCall =>
         /\ Raises(selectorsOrderError) =>
               /\ selectors'[last'.self] = Append(selectors[last'.self], TheFragment)
               /\ stringify(selectors'[last'.self])
                     = stringify(selectors[last'.self]) \o TheFragment.selector
         /\ Raises(selectorsError) => selectors' = selectors]_vars

Witness_C10 ==
    /\ last.op = "chain"
    /\ last.outcome = selectorsOrderError
    /\ KindsOf(selectors[last.self]) = <<"pseudoElement", "element">>
    /\ stringify(selectors[last.self]) = <<":", ":", "a", "a">>

(* The objects combine returned, and the text combine computed for each.   *)
Combined == {o \in Objects : calls[o][1].type = "combined"}
CombinedFragment(o) == [type |-> "combined", selector |-> calls[o][1].value]

(* C11 as stated: an object combine returned holds, whatever chaining      *)
(* calls were made on it, the one 'combined' fragment only, and its        *)
(* stringify() is the text combine computed.                               *)
Orig_C11 ==
    \A o \in Combined :
       /\ selectors[o] = <<CombinedFragment(o)>>
       /\ stringify(selectors[o]) = calls[o][1].value

(* C11 as amended: an object combine returned keeps the 'combined'         *)
(* fragment first and unchanged, so its stringify() begins with the text   *)
(* combine computed; it holds that fragment alone until a chaining call is *)
(* made on it, and every chaining call on it that does not throw the       *)
(* duplicate-singleton error appends one fragment after it.                *)
Thm_C11 ==
    /\ \A o \in Combined :
          /\ selectors[o][1] = CombinedFragment(o)
          /\ Count(selectors[o], "combined") = 1
          /\ Len(selectors[o]) = Len(calls[o])
          /\ SubSeq(stringify(selectors[o]), 1, Len(calls[o][1].value)) = calls[o][1].value
    /\ (last.op = "combine") => selectors[last.ret] = <<CombinedFragment(last.ret)>>

(* class() was called on 'a + a' and returned it, now 'a + a.a'.           *)
Witness_C11 ==
    /\ last.op = "chain"
    /\ last.self \in Combined
    /\ last.outcome = "ok"
    /\ last.ret = last.self
    /\ KindsOf(selectors[last.self]) = <<"combined", "class">>
    /\ stringify(selectors[last.self]) = <<"a", " ", "+", " ", "a", ".", "a">>

(* C12: the objects share nothing. A facade call (one of the six, or       *)
(* combine) returns an object that did not exist and leaves the fragments  *)
(* of every existing object, the inputs of combine included, as they were; *)
(* a chaining call, whether it returns or throws, leaves the fragments and *)
(* the stringify() of every object but its own as they were, an object     *)
(* combine built from its own included.                                    *)
Thm_C12 ==
    [][/\ last'.op \in {"builder", "combine"} =>
             /\ last'.ret \notin Objects
             /\ DOMAIN selectors' = Objects \cup {last'.ret}
             /\ \A o \in Objects : selectors'[o] = selectors[o]
       /\ ChainingCall =>
             /\ DOMAIN selectors' = Objects
             /\ \A o \in Objects \ {last'.self} :
                   /\ selectors'[o] = selectors[o]
                   /\ stringify(selectors'[o]) = stringify(selectors[o])]_vars

(* Object 2 is 'a + a', built by combine from object 1 when that was 'a';  *)
(* class() was then called on object 1, now 'a.a'.                         *)
Witness_C12 ==
    /\ last.op = "chain"
    /\ last.self = 1
    /\ KindsOf(selectors[1]) = <<"element", "class">>
    /\ Len(selectors) = 2
    /\ selectors[2] = <<[type |-> "combined", selector |-> <<"a", " ", "+", " ", "a">>]>>

(* C13: once a chaining call on an object has thrown the out-of-order      *)
(* error, every later chaining call on that object, of any kind, throws    *)
(* one of the two errors: none returns normally.                           *)
Thm_C13 ==
    [][(ChainingCall /\ selectorsOrderError \in raised[last'.self])
       => (Raises(selectorsOrderError) \/ Raises(selectorsError))]_vars

(* id() after class threw the out-of-order error; a later call of a kind   *)
(* that follows every kind present, attr(), threw it again.                *)
Witness_C13 ==
    /\ last.op = "chain"
    /\ last.type = "attr"
    /\ last.outcome = selectorsOrderError
    /\ KindsOf(selectors[last.self]) = <<"class", "id", "attr">>

====
